---- MODULE Spec2Model ----
(***************************************************************************)
(* Model of the ds1621 driver (src/lib.rs): the device handle, its public  *)
(* operations and the I2C transport calls each operation issues.           *)
(*                                                                         *)
(* Temperatures (f32 in the source) are modelled exactly on a grid of      *)
(* tenths of a degree: the integer t stands for the f32 nearest to t/10.   *)
(* The only f32 operations of the driver are the float->integer casts      *)
(* (saturating, toward zero), one subtraction from an integer and one      *)
(* comparison with 0.5; on the grid they are exact in integer arithmetic.  *)
(***************************************************************************)
EXTENDS Integers, Sequences, FiniteSets, TLC

\* ---------------------------------------------------------------- bounds
MaxTempTenths == 1250       \* upper end of the temperature grid (+125.0)
MaxNegTempTenths == 550     \* lower end of the temperature grid (-55.0)
NumCustomAddr == 1          \* how many addresses other than the default new() is tried with

\* ------------------------------------------------------------- constants
TEMPERATURE == 170
ACCESS_TH == 161
ACCESS_TL == 162
ACCESS_CONFIG == 172        \* declared, used by no operation
START_CONVERT == 238
STOP_CONVERT == 34
ONE_SHOT == 1
ADDR_DEFAULT == 74

Byte == 0..255

MODE == {"CONTINOUS", "ONE_SHOT"}

TempGrid == (0 - MaxNegTempTenths)..MaxTempTenths

CustomAddrs == {a \in Byte : 72 <= a /\ a < 72 + NumCustomAddr}

\* register bytes write_threshold_temperature is called with: the two
\* threshold opcodes, the other opcodes of the chip, and neighbours
RegSample == {ACCESS_TH, ACCESS_TL, TEMPERATURE, ACCESS_CONFIG, START_CONVERT,
              STOP_CONVERT, 0, 160, 163, 255}

\* ------------------------------------------------------- u8 bit operators
RECURSIVE BitAndN(_, _, _)
BitAndN(a, b, n) ==
    IF n = 0 THEN 0
    ELSE (IF a % 2 = 1 /\ b % 2 = 1 THEN 1 ELSE 0)
         + 2 * BitAndN(a \div 2, b \div 2, n - 1)

RECURSIVE BitOrN(_, _, _)
BitOrN(a, b, n) ==
    IF n = 0 THEN 0
    ELSE (IF a % 2 = 1 \/ b % 2 = 1 THEN 1 ELSE 0)
         + 2 * BitOrN(a \div 2, b \div 2, n - 1)

BitAnd(a, b) == BitAndN(a, b, 8)
BitOr(a, b) == BitOrN(a, b, 8)

\* ------------------------------------------------------------ f32 casts
\* `x as u8` / `x as u32` on an f32: toward zero, saturating
F32AsU8(t) == IF t <= 0 THEN 0 ELSE IF t \div 10 > 255 THEN 255 ELSE t \div 10
\* (the upper saturation of u32 lies beyond every f32 the grid holds)
F32AsU32(t) == IF t <= 0 THEN 0 ELSE t \div 10

\* ------------------------------------------------------- results, calls
Ok(v) == [ok |-> TRUE, err |-> "none", val |-> v]
Err(e) == [ok |-> FALSE, err |-> e, val |-> 0]
NoResult == [ok |-> FALSE, err |-> "pending", val |-> 0]

\* one call of the transport: read, write or write_read
Xfer(kind, a, wr, rd, ok) ==
    [kind |-> kind, addr |-> a, wr |-> wr, rd |-> rd, ok |-> ok]

Ret(self, bus, res) == [self |-> self, bus |-> bus, res |-> res]

\* ------------------------------------------------------------ the driver
new_default == [addr |-> ADDR_DEFAULT, mode |-> "CONTINOUS"]
new(a_addr) == [addr |-> a_addr, mode |-> "CONTINOUS"]

\* rd_ok, c: outcome of i2c.read and the byte it delivers
read_config(self, rd_ok, c) ==
    IF rd_ok
    THEN Ret(self, <<Xfer("read", self.addr, <<>>, <<c>>, TRUE)>>, Ok(c))
    ELSE Ret(self, <<Xfer("read", self.addr, <<>>, <<>>, FALSE)>>, Err("E"))

write_config_retry(self, a_config, wr_ok) ==
    IF wr_ok
    THEN Ret(self, <<Xfer("write", self.addr, <<a_config>>, <<>>, TRUE)>>, Ok(0))
    ELSE Ret(self, <<Xfer("write", self.addr, <<a_config>>, <<>>, FALSE),
                     Xfer("write", self.addr, <<a_config>>, <<>>, FALSE)>>,
             Err("I2C"))

write_config(self, a_config, wr_ok) ==
    Ret(self, <<Xfer("write", self.addr, <<a_config>>, <<>>, wr_ok)>>,
        IF wr_ok THEN Ok(0) ELSE Err("I2C"))

\* set_convert_mode with one slip: the ONE_SHOT mask 0x01 ("mask01"), the
\* write skipped when the byte is unchanged ("skip_same"), the mode stored
\* in the handle ("stores")
set_convert_mode_slip(self, a_mode, rd_ok, c, wr_ok, slip) ==
    LET r == read_config(self, rd_ok, c) IN
    IF r.res.ok
    THEN LET conf_val == IF a_mode = "CONTINOUS"
                         THEN BitOr(r.res.val, ONE_SHOT)
                         ELSE BitAnd(r.res.val, IF slip = "mask01" THEN 1 ELSE 254)
             w == write_config(self, conf_val, wr_ok)
         IN IF slip = "skip_same" /\ conf_val = r.res.val
            THEN Ret(self, r.bus, Ok(0))
            ELSE Ret(IF slip = "stores" /\ w.res.ok
                     THEN [self EXCEPT !.mode = a_mode] ELSE self,
                     r.bus \o w.bus, w.res)
    ELSE Ret(self, r.bus, Err("I2C"))

set_convert_mode_mask01(self, a_mode, rd_ok, c, wr_ok) ==
    set_convert_mode_slip(self, a_mode, rd_ok, c, wr_ok, "mask01")

set_convert_mode_stores(self, a_mode, rd_ok, c, wr_ok) ==
    set_convert_mode_slip(self, a_mode, rd_ok, c, wr_ok, "stores")

set_convert_mode_skip_same(self, a_mode, rd_ok, c, wr_ok) ==
    set_convert_mode_slip(self, a_mode, rd_ok, c, wr_ok, "skip_same")

set_convert_mode(self, a_mode, rd_ok, c, wr_ok) ==
    LET r == read_config(self, rd_ok, c) IN
    IF r.res.ok
    THEN LET conf_val == IF a_mode = "CONTINOUS"
                         THEN BitOr(r.res.val, ONE_SHOT)
                         ELSE BitAnd(r.res.val, 254)
             w == write_config(self, conf_val, wr_ok)
         IN Ret(self, r.bus \o w.bus, w.res)
    ELSE Ret(self, r.bus, Err("I2C"))

start_convert_twice(self, wr_ok) ==
    Ret(self, <<Xfer("write", self.addr, <<START_CONVERT>>, <<>>, wr_ok),
                Xfer("write", self.addr, <<START_CONVERT>>, <<>>, wr_ok)>>,
        IF wr_ok THEN Ok(0) ELSE Err("E"))

start_convert(self, wr_ok) ==
    Ret(self, <<Xfer("write", self.addr, <<START_CONVERT>>, <<>>, wr_ok)>>,
        IF wr_ok THEN Ok(0) ELSE Err("E"))

stop_convert(self, wr_ok) ==
    Ret(self, <<Xfer("write", self.addr, <<STOP_CONVERT>>, <<>>, wr_ok)>>,
        IF wr_ok THEN Ok(0) ELSE Err("E"))

\* the half-degree flag as the code computes it: truncated minus original
HalfFlag(a_temp) == IF F32AsU32(a_temp) * 10 - a_temp >= 5 THEN 128 ELSE 0

write_threshold_temperature_unchecked(self, a_temp, reg, wr_ok) ==
    Ret(self, <<Xfer("write", self.addr,
                     <<reg, F32AsU8(a_temp), HalfFlag(a_temp)>>, <<>>, wr_ok)>>,
        IF wr_ok THEN Ok(0) ELSE Err("I2C"))

write_threshold_temperature(self, a_temp, reg, wr_ok) ==
    IF reg # ACCESS_TL /\ reg # ACCESS_TH
    THEN Ret(self, <<>>, Err("INVALID_PARAMETER"))
    ELSE Ret(self, <<Xfer("write", self.addr,
                          <<reg, F32AsU8(a_temp), HalfFlag(a_temp)>>, <<>>, wr_ok)>>,
             IF wr_ok THEN Ok(0) ELSE Err("I2C"))

write_high_temperature(self, a_temp, wr_ok) ==
    write_threshold_temperature(self, a_temp, ACCESS_TH, wr_ok)

write_low_temperature(self, a_temp, wr_ok) ==
    write_threshold_temperature(self, a_temp, ACCESS_TL, wr_ok)

\* decoding of the two bytes read, in tenths: raw_read[0] as f32 (unsigned), +0.5
DecodeTemperature(b0, b1) == b0 * 10 + (IF b1 # 0 THEN 5 ELSE 0)

read_temperature(self, ok, b0, b1) ==
    IF ok
    THEN Ret(self, <<Xfer("write_read", self.addr, <<TEMPERATURE>>, <<b0, b1>>, TRUE)>>,
             Ok(DecodeTemperature(b0, b1)))
    ELSE Ret(self, <<Xfer("write_read", self.addr, <<TEMPERATURE>>, <<>>, FALSE)>>,
             Err("E"))

\* ------------------------------------------------------------- the state
VARIABLES addr, mode,        \* the handle's fields
          pc,                \* "idle": between calls; "done": a call has returned
          call,              \* the operation called and its arguments
          bus,               \* the transport calls the operation issued, in order
          result,            \* what the operation returned
          ctor_addr,         \* history: the address given at construction
          last_set           \* history: mode of the last successful set_convert_mode

vars == <<addr, mode, pc, call, bus, result, ctor_addr, last_set>>

Self == [addr |-> addr, mode |-> mode]

Call(op, a_mode, a_config, a_temp, reg) ==
    [op |-> op, a_mode |-> a_mode, a_config |-> a_config, a_temp |-> a_temp, reg |-> reg]

NoCall == Call("none", "-", 0, 0, 0)

Init ==
    /\ \E h \in {new_default} \cup {new(a) : a \in CustomAddrs} :
          /\ addr = h.addr
          /\ mode = h.mode
          /\ ctor_addr = h.addr
    /\ pc = "idle"
    /\ call = NoCall
    /\ bus = <<>>
    /\ result = NoResult
    /\ last_set = "none"

\* the call c, made on an idle handle, returns r
Returns(c, r) ==
    /\ pc' = "done"
    /\ call' = c
    /\ addr' = r.self.addr
    /\ mode' = r.self.mode
    /\ bus' = r.bus
    /\ result' = r.res
    /\ UNCHANGED ctor_addr

SetConvertMode ==
    /\ pc = "idle"
    /\ \E a_mode \in MODE :
       \/ /\ Returns(Call("set_convert_mode", a_mode, 0, 0, 0),
                     set_convert_mode(Self, a_mode, FALSE, 0, FALSE))
          /\ UNCHANGED last_set
       \/ \E c \in Byte, wr_ok \in BOOLEAN :
             /\ Returns(Call("set_convert_mode", a_mode, 0, 0, 0),
                        set_convert_mode(Self, a_mode, TRUE, c, wr_ok))
             /\ last_set' = IF result'.ok THEN a_mode ELSE last_set

ReadConfig ==
    /\ pc = "idle"
    /\ \/ Returns(Call("read_config", "-", 0, 0, 0), read_config(Self, FALSE, 0))
       \/ \E c \in Byte :
             Returns(Call("read_config", "-", 0, 0, 0), read_config(Self, TRUE, c))
    /\ UNCHANGED last_set

WriteConfig ==
    /\ pc = "idle"
    /\ \E a_config \in Byte, wr_ok \in BOOLEAN :
          Returns(Call("write_config", "-", a_config, 0, 0),
                  write_config(Self, a_config, wr_ok))
    /\ UNCHANGED last_set

StartConvert ==
    /\ pc = "idle"
    /\ \E wr_ok \in BOOLEAN :
          Returns(Call("start_convert", "-", 0, 0, 0), start_convert(Self, wr_ok))
    /\ UNCHANGED last_set

StopConvert ==
    /\ pc = "idle"
    /\ \E wr_ok \in BOOLEAN :
          Returns(Call("stop_convert", "-", 0, 0, 0), stop_convert(Self, wr_ok))
    /\ UNCHANGED last_set

WriteHighTemperature ==
    /\ pc = "idle"
    /\ \E a_temp \in TempGrid, wr_ok \in BOOLEAN :
          Returns(Call("write_high_temperature", "-", 0, a_temp, ACCESS_TH),
                  write_high_temperature(Self, a_temp, wr_ok))
    /\ UNCHANGED last_set

WriteLowTemperature ==
    /\ pc = "idle"
    /\ \E a_temp \in TempGrid, wr_ok \in BOOLEAN :
          Returns(Call("write_low_temperature", "-", 0, a_temp, ACCESS_TL),
                  write_low_temperature(Self, a_temp, wr_ok))
    /\ UNCHANGED last_set

WriteThresholdTemperature ==
    /\ pc = "idle"
    /\ \E a_temp \in TempGrid, reg \in RegSample, wr_ok \in BOOLEAN :
          Returns(Call("write_threshold_temperature", "-", 0, a_temp, reg),
                  write_threshold_temperature(Self, a_temp, reg, wr_ok))
    /\ UNCHANGED last_set

ReadTemperature ==
    /\ pc = "idle"
    /\ \/ Returns(Call("read_temperature", "-", 0, 0, 0),
                  read_temperature(Self, FALSE, 0, 0))
       \/ \E b0 \in Byte, b1 \in Byte :
             Returns(Call("read_temperature", "-", 0, 0, 0),
                     read_temperature(Self, TRUE, b0, b1))
    /\ UNCHANGED last_set

\* the caller takes the result; the handle is ready for the next call
NextCall ==
    /\ pc = "done"
    /\ pc' = "idle"
    /\ call' = NoCall
    /\ bus' = <<>>
    /\ result' = NoResult
    /\ UNCHANGED <<addr, mode, ctor_addr, last_set>>

Next ==
    \/ SetConvertMode
    \/ ReadConfig
    \/ WriteConfig
    \/ StartConvert
    \/ StopConvert
    \/ WriteHighTemperature
    \/ WriteLowTemperature
    \/ WriteThresholdTemperature
    \/ ReadTemperature
    \/ NextCall

Spec == Init /\ [][Next]_vars

\* ------------------------------------------------------------ properties
Done(op) == pc = "done" /\ call.op = op

ThresholdOps == {"write_threshold_temperature", "write_high_temperature",
                 "write_low_temperature"}

\* a threshold write was called with one of the two threshold opcodes
ThresholdDone == pc = "done" /\ call.op \in ThresholdOps
                 /\ call.reg \in {ACCESS_TH, ACCESS_TL}

\* the integer part of t (tenths), truncated toward zero, as a byte
TruncatedIntegerByte(t) ==
    IF t >= 0 THEN t \div 10 ELSE (256 - ((0 - t) \div 10)) % 256

\* 0x80 when t minus its truncated integer part is at least 0.5
FractionFlag(t) ==
    IF t >= 0 THEN (IF t % 10 >= 5 THEN 128 ELSE 0)
    ELSE (IF t + ((0 - t) \div 10) * 10 >= 5 THEN 128 ELSE 0)

\* floor(t) + (0.5 if t - floor(t) >= 0.5 else 0.0), in tenths
TruncateToHalfDegree(t) == (t \div 10) * 10 + (IF t % 10 >= 5 THEN 5 ELSE 0)

Signed8(b) == IF b >= 128 THEN b - 256 ELSE b

\* C1: write_threshold_temperature called with a register byte other than
\* ACCESS_TH and ACCESS_TL returns INVALID_PARAMETER and issues no transport
\* call, whatever the temperature.
C1_InvalidRegisterRejected ==
    (Done("write_threshold_temperature") /\ call.reg \notin {ACCESS_TH, ACCESS_TL})
        => (result = Err("INVALID_PARAMETER") /\ bus = <<>>)

C1_Witness ==
    /\ Done("write_threshold_temperature")
    /\ call.reg = 160
    /\ call.a_temp = 237
    /\ result.err = "INVALID_PARAMETER"

\* C2: a threshold write issues one 3-byte write [register, truncated integer
\* part of t, flag], flag = 0x80 when t minus its truncated integer part is
\* >= 0.5 and 0x00 otherwise (write_high_temperature(23.7) -> [0xA1, 23, 0x80]).
C2_ThresholdBytes ==
    ThresholdDone =>
        /\ Len(bus) = 1
        /\ bus[1].kind = "write"
        /\ bus[1].wr = <<call.reg, TruncatedIntegerByte(call.a_temp),
                         FractionFlag(call.a_temp)>>

\* C3: read_temperature returns byte0 as a signed 8-bit integer, plus 0.5
\* when byte1 is nonzero ([0xF6, 5] -> -9.5).
C3_DecodeSigned ==
    (Done("read_temperature") /\ result.ok) =>
        result.val = Signed8(bus[1].rd[1]) * 10
                     + (IF bus[1].rd[2] # 0 THEN 5 ELSE 0)

\* C4: decoding, by read_temperature's rule, the [integer byte, flag byte]
\* a threshold write encodes for t yields floor(t) + (0.5 if the fraction of
\* t is >= 0.5 else 0.0).
C4_RoundTrip ==
    ThresholdDone =>
        DecodeTemperature(bus[1].wr[2], bus[1].wr[3])
            = TruncateToHalfDegree(call.a_temp)

\* C5: for either mode and any configuration byte the chip returns,
\* set_convert_mode performs exactly one read followed by exactly one write,
\* each of one byte, and no other transport call.
C5_OneReadThenOneWrite ==
    (Done("set_convert_mode") /\ Len(bus) >= 1 /\ bus[1].ok) =>
        /\ Len(bus) = 2
        /\ bus[1].kind = "read" /\ Len(bus[1].rd) = 1 /\ bus[1].wr = <<>>
        /\ bus[2].kind = "write" /\ Len(bus[2].wr) = 1 /\ bus[2].rd = <<>>

\* the bit computation leaves the byte as it was read; the write still happens
C5_Witness ==
    /\ Done("set_convert_mode")
    /\ call.a_mode = "ONE_SHOT"
    /\ Len(bus) = 2
    /\ bus[1].rd = <<128>>
    /\ bus[2].wr = <<128>>

\* C6 as stated: every public operation issues at most one bus transaction
\* per call.
C6_AtMostOneTransaction == pc = "done" => Len(bus) <= 1

\* C6 amended: every public operation other than set_convert_mode issues at
\* most one transport call per call; set_convert_mode issues at most two, the
\* configuration read and then the configuration write.
C6_AtMostOneExceptSetMode ==
    pc = "done" =>
        IF call.op = "set_convert_mode"
        THEN /\ Len(bus) <= 2
             /\ Len(bus) = 2 => (bus[1].kind = "read" /\ bus[2].kind = "write")
        ELSE Len(bus) <= 1

C6_Witness ==
    /\ Done("start_convert")
    /\ Len(bus) = 1
    /\ bus[1].wr = <<START_CONVERT>>

\* C7: the handle's mode field equals the mode of the most recent successful
\* set_convert_mode, and Continuous when none has succeeded.
C7_ModeMirrorsLastSet ==
    mode = (IF last_set = "none" THEN "CONTINOUS" ELSE last_set)

\* C8: a failed transport call is the last transport call of its operation
\* and the operation returns the transport error: a failed configuration read
\* in set_convert_mode gives the I2C variant and no write, a failed write in
\* write_config or a threshold write gives the I2C variant after one attempt.
C8_FailureEndsOperation ==
    pc = "done" =>
        /\ \A i \in 1..Len(bus) :
              ~bus[i].ok => /\ i = Len(bus)
                            /\ ~result.ok
                            /\ result.err \in {"I2C", "E"}
        /\ (call.op = "set_convert_mode" /\ ~bus[1].ok)
              => (result = Err("I2C") /\ Len(bus) = 1 /\ bus[1].kind = "read")
        /\ (call.op \in ThresholdOps \cup {"write_config"}
            /\ Len(bus) >= 1 /\ ~bus[Len(bus)].ok)
              => (result = Err("I2C") /\ Len(bus) = 1 /\ bus[1].kind = "write")

C8_Witness ==
    /\ Done("write_config")
    /\ call.a_config = 10
    /\ Len(bus) = 1
    /\ ~bus[1].ok
    /\ result = Err("I2C")

\* C9: no operation changes the handle's fields: the mode is still Continuous
\* and the address still the construction address after any sequence of
\* operations, and every transport call is addressed to that address.
C9_HandleFieldsUnchanged ==
    /\ mode = "CONTINOUS"
    /\ addr = ctor_addr
    /\ \A i \in 1..Len(bus) : bus[i].addr = ctor_addr

C9_Witness ==
    /\ Done("set_convert_mode")
    /\ call.a_mode = "ONE_SHOT"
    /\ result.ok
    /\ last_set = "ONE_SHOT"
    /\ ctor_addr # ADDR_DEFAULT
    /\ bus[2].addr = ctor_addr

\* C10 as stated: set_convert_mode(ONE_SHOT) writes back the byte read with
\* bits 1 to 7 cleared; set_convert_mode(CONTINOUS) writes it with bit 0 set
\* and bits 1 to 7 as read.
C10_OneShotClearsHighBits ==
    (Done("set_convert_mode") /\ Len(bus) = 2) =>
        IF call.a_mode = "ONE_SHOT"
        THEN bus[2].wr[1] \div 2 = 0
        ELSE bus[2].wr[1] % 2 = 1 /\ bus[2].wr[1] \div 2 = bus[1].rd[1] \div 2

\* C10 amended: set_convert_mode(ONE_SHOT) writes back the byte read with
\* bit 0 cleared and bits 1 to 7 as read; set_convert_mode(CONTINOUS) writes
\* it with bit 0 set and bits 1 to 7 as read.
C10_OnlyBitZeroChanges ==
    (Done("set_convert_mode") /\ Len(bus) = 2) =>
        /\ bus[2].wr[1] \div 2 = bus[1].rd[1] \div 2
        /\ bus[2].wr[1] % 2 = (IF call.a_mode = "ONE_SHOT" THEN 0 ELSE 1)

C10_Witness ==
    /\ Done("set_convert_mode")
    /\ call.a_mode = "ONE_SHOT"
    /\ Len(bus) = 2
    /\ bus[1].rd = <<255>>
    /\ bus[2].wr = <<254>>

====
